---- MODULE Spec2Model ----
(***************************************************************************)
(* Model of the polyline consolidation core of vectorize: merge_collinear  *)
(* (src/cleanup.py) and the endpoint index PathIndex (src/path_index.py).  *)
(*                                                                         *)
(* Points are pairs of integers <<x, y>>.  On integer coordinates every    *)
(* floating-point comparison of the source is decided exactly:             *)
(*   - distances are compared through their squares;                       *)
(*   - np.allclose(a, b, rtol) is |a - b| <= 1e-8 + rtol * |b| per         *)
(*     coordinate, which on integers is |a - b| * (1 / rtol) <= |b|;       *)
(*   - arccos(|dot|) < 15 degrees is dot^2 > cos^2(15) * n1 * n2 with      *)
(*     cos^2(15) = (2 + sqrt 3) / 4, an exact integer test.                *)
(* Polyline identifiers are list positions; the source counts them from 0, *)
(* the model from 1.                                                       *)
(***************************************************************************)
EXTENDS Integers, Sequences, FiniteSets, TLC

VARIABLES
    input,         \* the polylines the caller passed, as they were at the call
    segments,      \* the caller's list, which merge_collinear rewrites in place
    merge_dist_tol,\* d_tol of the call
    angle_tol,     \* a_tol of the call (degrees)
    active,        \* list of active identifiers
    entries_x,     \* PathIndex.entries_x: records sorted by x
    entries_y,     \* PathIndex.entries_y: records sorted by y
    excluded,      \* PathIndex.excluded
    pc,            \* position in merge_collinear
    i,             \* position in `active` of the inner while loop
    merged,        \* the flag `merged` of the current pass
    snapshot,      \* list(active) taken by the closure loop
    k,             \* position of the closure loop in snapshot
    to_remove,     \* identifiers closed by the closure loop
    merged_paths,  \* the list being returned
    run,           \* 1 for the first call, n + 1 for a call on the n-th call's output
    lastMerge,     \* history: the last committed merge
    lastTry,       \* history: the last endpoint-merge step
    lastClose,     \* history: the last iteration of the closure loop
    nMerges,       \* history: merges committed in this call
    live,          \* history: the records inserted for an identifier since its
                   \* last remove_path
    home           \* history: for each list position of the call's input, the
                   \* identifier whose polyline holds its points now

vars == <<input, segments, merge_dist_tol, angle_tol, active, entries_x,
          entries_y, excluded, pc, i, merged, snapshot, k, to_remove,
          merged_paths, run, lastMerge, lastTry, lastClose, nMerges, live,
          home>>

-----------------------------------------------------------------------------
(* Bounds of the model *)

MaxPaths == 2
MaxRuns == 2

(* Program constants *)

a_tol == 15
RtolInv == 100000
ClosedRtolInv == 1000000

-----------------------------------------------------------------------------
(* Geometry kernel *)

Abs(n) == IF n < 0 THEN -n ELSE n

Sub(p, q) == <<p[1] - q[1], p[2] - q[2]>>

Dot(u, v) == u[1] * v[1] + u[2] * v[2]

Cross(u, v) == u[1] * v[2] - u[2] * v[1]

Norm2(u) == Dot(u, u)

Dist2(p, q) == Norm2(Sub(p, q))

Reverse(s) == [n \in 1..Len(s) |-> s[Len(s) + 1 - n]]

First(s) == s[1]

Last(s) == s[Len(s)]

\* np.allclose(a, b, rtol = 1 / rinv) on integer coordinates
AllCloseRtol(a, b, rinv) ==
    /\ Abs(a[1] - b[1]) * rinv <= Abs(b[1])
    /\ Abs(a[2] - b[2]) * rinv <= Abs(b[2])

AllClose(a, b) == AllCloseRtol(a, b, RtolInv)

\* degrees(arccos(clip(|dot|, -1, 1))) < tol for the unit vectors of u and v,
\* where dot = Dot(u, v), n1 = Norm2(u), n2 = Norm2(v), both non-zero
AngleBelow(dot, n1, n2, tol) ==
    CASE tol = 15 -> LET t == 4 * dot * dot - 2 * n1 * n2
                     IN  t > 0 /\ t * t > 3 * (n1 * n2) * (n1 * n2)
      [] tol = 45 -> 2 * dot * dot > n1 * n2
      [] tol = 90 -> dot # 0

\* angle < angle_tol or abs(180 - angle) < angle_tol; the angle is in [0, 90],
\* so the second disjunct needs angle_tol > 90
are_segments_collinear(seg1_dir, seg2_dir, tol) ==
    AngleBelow(Dot(seg1_dir, seg2_dir), Norm2(seg1_dir), Norm2(seg2_dir), tol)

\* a variant that finds no two segments offset
are_segments_offset_never(seg1_point, seg1_dir, seg2_point, d) == FALSE

\* point_to_line_distance(seg2_point, seg1_point, seg1_dir) > d * 0.5:
\* the perpendicular distance is |cross| / |seg1_dir|
are_segments_offset(seg1_point, seg1_dir, seg2_point, d) ==
    LET c == Cross(Sub(seg2_point, seg1_point), seg1_dir)
    IN  4 * c * c > d * d * Norm2(seg1_dir)

\* a variant that snaps the two meeting points to their midpoint
merge_paths_snap(path1, path2, reverse1, reverse2) ==
    LET p1 == IF reverse1 THEN Reverse(path1) ELSE path1
        p2 == IF reverse2 THEN Reverse(path2) ELSE path2
        seam == <<(Last(p1)[1] + First(p2)[1]) \div 2,
                  (Last(p1)[2] + First(p2)[2]) \div 2>>
    IN  SubSeq(p1, 1, Len(p1) - 1) \o <<seam>> \o Tail(p2)

\* a variant that always takes the second part's leading point as a duplicate
merge_paths_drop(path1, path2, reverse1, reverse2) ==
    LET p1 == IF reverse1 THEN Reverse(path1) ELSE path1
        p2 == IF reverse2 THEN Reverse(path2) ELSE path2
    IN  p1 \o Tail(p2)

merge_paths(path1, path2, reverse1, reverse2) ==
    LET p1 == IF reverse1 THEN Reverse(path1) ELSE path1
        p2 == IF reverse2 THEN Reverse(path2) ELSE path2
    IN  IF AllClose(Last(p1), First(p2)) THEN p1 \o Tail(p2) ELSE p1 \o p2

\* a variant that closes on endpoint distance alone
should_close_path_near(path, d, tol) ==
    /\ Len(path) >= 3
    /\ ~AllClose(First(path), Last(path))
    /\ Dist2(First(path), Last(path)) <= d * d

should_close_path(path, d, tol) ==
    /\ Len(path) >= 3
    /\ ~AllClose(First(path), Last(path))
    /\ ~(Dist2(First(path), Last(path)) > d * d)
    /\ LET start_segment == Sub(path[2], First(path))
           end_segment == Sub(Last(path), path[Len(path) - 1])
       IN  /\ Norm2(start_segment) # 0
           /\ Norm2(end_segment) # 0
           /\ AngleBelow(Dot(start_segment, <<-end_segment[1], -end_segment[2]>>),
                         Norm2(start_segment), Norm2(end_segment), tol)

-----------------------------------------------------------------------------
(* PathIndex *)

\* the sort key of a SortedList: lambda e: e.x or lambda e: e.y
Key(e, axis) == IF axis = "x" THEN e.x ELSE e.y

IndexEntry(pt, id, is_start) ==
    [x |-> pt[1], y |-> pt[2], path_index |-> id, is_start |-> is_start]

\* SortedList.bisect_left / bisect_right on the key of the list
bisect_left(sorted_list, v, axis) ==
    Cardinality({n \in 1..Len(sorted_list) : Key(sorted_list[n], axis) < v})

bisect_right(sorted_list, v, axis) ==
    Cardinality({n \in 1..Len(sorted_list) : Key(sorted_list[n], axis) <= v})

\* SortedList.add: the new entry goes after the entries with an equal key
SortedAdd(sorted_list, e, axis) ==
    LET n == bisect_right(sorted_list, Key(e, axis), axis)
    IN  SubSeq(sorted_list, 1, n) \o <<e>> \o SubSeq(sorted_list, n + 1, Len(sorted_list))

_is_closed_path(path) ==
    Len(path) >= 3 /\ AllCloseRtol(First(path), Last(path), ClosedRtolInv)

\* the two records of one polyline, start first, added to one sorted list
AddEndpoints(sorted_list, path, id, axis) ==
    SortedAdd(SortedAdd(sorted_list, IndexEntry(First(path), id, TRUE), axis),
              IndexEntry(Last(path), id, FALSE), axis)

RECURSIVE BuildEntries(_, _, _)
BuildEntries(paths, n, axis) ==
    IF n = 0 THEN <<>>
    ELSE LET before == BuildEntries(paths, n - 1, axis)
         IN  IF ~_is_closed_path(paths[n]) /\ Len(paths[n]) >= 2
             THEN AddEndpoints(before, paths[n], n, axis)
             ELSE before

_build_index(paths) ==
    [entries_x |-> BuildEntries(paths, Len(paths), "x"),
     entries_y |-> BuildEntries(paths, Len(paths), "y"),
     excluded |-> {n \in 1..Len(paths) : _is_closed_path(paths[n])}]

\* a variant with a strict radius test
InRadiusStrict(d2, r) == d2 < r * r

\* d2 <= r2

InRadius(d2, r) == d2 <= r * r

\* a variant that leaves the results in the order of the scanned list
SortByDistanceNot(results) == results

\* results.sort(key = distance): a stable sort
RECURSIVE SortByDistance(_)
SortByDistance(results) ==
    IF results = <<>> THEN <<>>
    ELSE LET rest == SortByDistance(SubSeq(results, 1, Len(results) - 1))
             e == results[Len(results)]
             n == Cardinality({m \in 1..Len(rest) : rest[m].d2 <= e.d2})
         IN  SubSeq(rest, 1, n) \o <<e>> \o SubSeq(rest, n + 1, Len(rest))

EndpointMatch(e, point) ==
    [path_index |-> e.path_index, is_start |-> e.is_start,
     point |-> <<e.x, e.y>>, d2 |-> Dist2(<<e.x, e.y>>, point)]

find_endpoints_in_radius(ex, ey, excl, point, r) ==
    LET left_x == bisect_left(ex, point[1] - r, "x")
        right_x == bisect_right(ex, point[1] + r, "x")
        left_y == bisect_left(ey, point[2] - r, "y")
        right_y == bisect_right(ey, point[2] + r, "y")
        candidates == IF (right_x - left_x) < (right_y - left_y)
                      THEN SubSeq(ex, left_x + 1, right_x)
                      ELSE SubSeq(ey, left_y + 1, right_y)
        hit(e) == e.path_index \notin excl /\ InRadius(Dist2(<<e.x, e.y>>, point), r)
        kept == SelectSeq(candidates, hit)
    IN  SortByDistance([n \in 1..Len(kept) |-> EndpointMatch(kept[n], point)])

\* a variant that empties the excluded set
insert_path_clear(ix, path, id) ==
    IF _is_closed_path(path)
    THEN [ix EXCEPT !.excluded = {id}]
    ELSE [entries_x |-> AddEndpoints(ix.entries_x, path, id, "x"),
          entries_y |-> AddEndpoints(ix.entries_y, path, id, "y"),
          excluded |-> {}]

\* insert_path: un-exclude, then either exclude a closed path or add records
insert_path(ix, path, id) ==
    IF _is_closed_path(path)
    THEN [ix EXCEPT !.excluded = (ix.excluded \ {id}) \cup {id}]
    ELSE [entries_x |-> AddEndpoints(ix.entries_x, path, id, "x"),
          entries_y |-> AddEndpoints(ix.entries_y, path, id, "y"),
          excluded |-> ix.excluded \ {id}]

\* a variant that forgets to mark the identifier
remove_path_not(ix, id) == ix

\* remove_path: lazy removal, the records stay in both lists
remove_path(ix, id) == [ix EXCEPT !.excluded = ix.excluded \cup {id}]

\* the records stored since the last removal of their identifier, as the
\* three operations of the index change them
LiveAfterBuild(paths) ==
    UNION {{IndexEntry(First(paths[n]), n, TRUE), IndexEntry(Last(paths[n]), n, FALSE)} :
              n \in {m \in 1..Len(paths) : ~_is_closed_path(paths[m]) /\ Len(paths[m]) >= 2}}

LiveAfterRemove(recs, id) == {e \in recs : e.path_index # id}

LiveAfterInsert(recs, path, id) ==
    IF _is_closed_path(path) THEN recs
    ELSE recs \cup {IndexEntry(First(path), id, TRUE), IndexEntry(Last(path), id, FALSE)}

CurrentIndex == [entries_x |-> entries_x, entries_y |-> entries_y, excluded |-> excluded]

-----------------------------------------------------------------------------
(* try_merge_at_endpoint *)

EndPoint(path, at_start) == IF at_start THEN First(path) ELSE Last(path)

\* the direction of the segment at an end: path[1] - path[0] or path[-1] - path[-2]
EndDir(path, at_start) ==
    IF at_start THEN Sub(path[2], path[1])
    ELSE Sub(Last(path), path[Len(path) - 1])

InList(list, v) == \E n \in 1..Len(list) : list[n] = v

\* a variant that leaves the list as it is
ListRemoveNone(list, v) == list

\* list.remove(v) of a list without repetitions
ListRemove(list, v) == SelectSeq(list, LAMBDA e : e # v)

\* a variant that lets a zero-length segment at the matched end through
AcceptsDegenerate(path, idx, at_start, segs, act, match, d, tol) ==
    LET j == match.path_index
    IN  /\ j # idx
        /\ InList(act, j)
        /\ Len(segs[j]) >= 2
        /\ LET dir1 == EndDir(path, at_start)
               dir2 == EndDir(segs[j], match.is_start)
           IN  /\ Norm2(dir1) # 0
               /\ Norm2(dir2) = 0 \/ are_segments_collinear(dir1, dir2, tol)
               /\ ~are_segments_offset(EndPoint(path, at_start), dir1,
                                       EndPoint(segs[j], match.is_start), d)

\* the tests of one candidate `match` of the loop over matches
Accepts(path, idx, at_start, segs, act, match, d, tol) ==
    LET j == match.path_index
    IN  /\ j # idx
        /\ InList(act, j)
        /\ Len(segs[j]) >= 2
        /\ LET dir1 == EndDir(path, at_start)
               dir2 == EndDir(segs[j], match.is_start)
           IN  /\ Norm2(dir1) # 0
               /\ Norm2(dir2) # 0
               /\ are_segments_collinear(dir1, dir2, tol)
               /\ ~are_segments_offset(EndPoint(path, at_start), dir1,
                                       EndPoint(segs[j], match.is_start), d)

Min(S) == CHOOSE m \in S : \A n \in S : m <= n

NoMatch == [path_index |-> 0, is_start |-> FALSE, point |-> <<0, 0>>, d2 |-> 0]

\* the result of the call: ok is "merged_path is not None"; segments, index
\* and active are the three structures as the call leaves them
try_merge_at_endpoint(path, idx, at_start, segs, act, ix, d, tol) ==
    LET matches == find_endpoints_in_radius(ix.entries_x, ix.entries_y, ix.excluded,
                                            EndPoint(path, at_start), d)
        passing == {n \in 1..Len(matches) :
                        Accepts(path, idx, at_start, segs, act, matches[n], d, tol)}
    IN  IF passing = {}
        THEN [ok |-> FALSE, merged_path |-> <<>>, match |-> NoMatch, matches |-> matches,
              segments |-> segs, index |-> ix, active |-> act]
        ELSE LET match == matches[Min(passing)]
                 j == match.path_index
                 seg == segs[j]
                 merged_path == IF at_start
                                THEN merge_paths(seg, path, ~match.is_start, FALSE)
                                ELSE merge_paths(path, seg, FALSE, ~match.is_start)
             IN  [ok |-> TRUE, merged_path |-> merged_path, match |-> match,
                  matches |-> matches,
                  segments |-> [segs EXCEPT ![idx] = merged_path],
                  index |-> insert_path(remove_path(remove_path(ix, idx), j),
                                        merged_path, idx),
                  active |-> ListRemove(act, j)]

-----------------------------------------------------------------------------
(* Inputs *)

Square == <<<<0, 0>>, <<0, 1>>, <<1, 1>>, <<1, 0>>, <<0, 0>>>>
CShape == <<<<2, 0>>, <<0, 0>>, <<0, 1>>, <<2, 1>>>>
UShape == <<<<0, 0>>, <<0, 1>>, <<1, 1>>, <<1, 0>>>>
LShape == <<<<0, 0>>, <<1, 0>>, <<1, 1>>>>
LongDash == <<<<3, 0>>, <<6, 0>>>>
Slant == <<<<0, 0>>, <<4, 1>>>>
Degenerate == <<<<1, 0>>, <<1, 0>>>>
SinglePoint == <<<<2, 1>>>>
Spike == <<<<0, 0>>, <<1, 0>>, <<0, 0>>>>

Shapes == {Square, CShape, UShape, LShape, LongDash, Slant, Degenerate, SinglePoint, Spike}

Xs == 0..3
Ys == 0..1

\* the straight dashes of the rows y \in Ys: in both directions on row 0,
\* from left to right on the other row
RowSegs == {<<<<t[1], t[3]>>, <<t[2], t[3]>>>> :
                t \in {u \in Xs \X Xs \X Ys :
                          u[1] # u[2] /\ (u[3] = 0 \/ u[1] < u[2])}}

Pool == RowSegs \cup Shapes

Inputs == UNION {[1..n -> Pool] : n \in 0..MaxPaths}

DTols == {1, 2}

\* the three polylines of test_speckle_offset_rejection
SpeckleLine == <<<<0, 0>>, <<100, 0>>>>
SpeckleFar == <<<<100, 5>>, <<101, 5>>>>
SpeckleNear == <<<<100, 1>>, <<101, 1>>>>
SpeckleTol == 50

\* test_parallel_dashed_lines in units of its dash: two rows of three dashes
ParallelDashes ==
    <<<<<<0, 0>>, <<1, 0>>>>, <<<<2, 0>>, <<3, 0>>>>, <<<<4, 0>>, <<5, 0>>>>,
      <<<<0, 1>>, <<1, 1>>>>, <<<<2, 1>>, <<3, 1>>>>, <<<<4, 1>>, <<5, 1>>>>>>

\* two touching dashes of one line and a third dash beside their joint
BesideJoint == <<<<<<0, 0>>, <<3, 0>>>>, LongDash, <<<<3, 1>>, <<2, 1>>>>>>

\* three touching dashes of one line, the rightmost first in the list
ChainOutOfOrder ==
    <<LongDash, <<<<0, 0>>, <<1, 0>>>>, <<<<1, 0>>, <<3, 0>>>>>>

\* a slanted dash, a dash whose start is near the slanted dash's end but too
\* far off its line, and a third dash away from both
ShiftedScan ==
    <<Slant, <<<<5, 0>>, <<6, 0>>>>, <<<<20, 0>>, <<21, 0>>>>>>

\* a dash, a zero-length polyline on its end point and a dash that continues it
BehindDegenerate ==
    <<<<<<0, 0>>, <<1, 0>>>>, Degenerate, <<<<2, 0>>, <<3, 0>>>>>>

\* inputs longer than MaxPaths, each with the d_tol of its call
Scenarios ==
    {[input |-> <<SpeckleLine, SpeckleFar, SpeckleNear>>, d |-> SpeckleTol],
     [input |-> ParallelDashes, d |-> 1],
     [input |-> BesideJoint, d |-> 2],
     [input |-> ChainOutOfOrder, d |-> 1],
     [input |-> ShiftedScan, d |-> 2],
     [input |-> BehindDegenerate, d |-> 1]}

NoMerge == [idx |-> 0, j |-> 0, at_start |-> FALSE, is_start |-> FALSE,
            A |-> <<>>, B |-> <<>>, point |-> <<0, 0>>, result |-> <<>>]
NoTry == [idx |-> 0, at_start |-> FALSE, ok |-> FALSE, matches |-> <<>>]
NoClose == [idx |-> 0, before |-> <<>>, closed |-> FALSE]

Init ==
    /\ \/ input \in Inputs /\ merge_dist_tol \in DTols
       \/ \E s \in Scenarios : input = s.input /\ merge_dist_tol = s.d
    /\ angle_tol = a_tol
    /\ segments = input
    /\ active = <<>>
    /\ entries_x = <<>>
    /\ entries_y = <<>>
    /\ excluded = {}
    /\ pc = "call"
    /\ i = 1
    /\ merged = FALSE
    /\ snapshot = <<>>
    /\ k = 1
    /\ to_remove = <<>>
    /\ merged_paths = <<>>
    /\ run = 1
    /\ lastMerge = NoMerge
    /\ lastTry = NoTry
    /\ lastClose = NoClose
    /\ nMerges = 0
    /\ live = {}
    /\ home = [n \in 1..Len(input) |-> n]

-----------------------------------------------------------------------------
(* merge_collinear *)

\* lines 260-267: the empty list returns at once; otherwise the index and
\* the active list are built
Call ==
    /\ pc = "call"
    /\ merged_paths' = <<>>
    /\ IF segments = <<>>
       THEN /\ pc' = "done"
            /\ UNCHANGED <<active, entries_x, entries_y, excluded, live>>
       ELSE /\ pc' = "end"
            /\ live' = LiveAfterBuild(segments)
            /\ LET ix == _build_index(segments)
               IN  /\ entries_x' = ix.entries_x
                   /\ entries_y' = ix.entries_y
                   /\ excluded' = ix.excluded
            /\ active' = SelectSeq([n \in 1..Len(segments) |-> n],
                                   LAMBDA n : Len(segments[n]) >= 2)
    /\ i' = 1
    /\ merged' = FALSE
    /\ UNCHANGED <<input, segments, merge_dist_tol, angle_tol, snapshot, k,
                   to_remove, run, lastMerge, lastTry, lastClose, nMerges, home>>

\* one call of try_merge_at_endpoint for active[i], with the loop control
\* that follows it
TryMerge(at_start) ==
    LET idx == active[i]
        path == segments[idx]
        r == try_merge_at_endpoint(path, idx, at_start, segments, active,
                                   CurrentIndex, merge_dist_tol, angle_tol)
    IN  /\ segments' = r.segments
        /\ active' = r.active
        /\ entries_x' = r.index.entries_x
        /\ entries_y' = r.index.entries_y
        /\ excluded' = r.index.excluded
        /\ lastTry' = [idx |-> idx, at_start |-> at_start, ok |-> r.ok,
                        matches |-> r.matches]
        /\ IF r.ok
           THEN /\ merged' = TRUE
                /\ pc' = "end"
                /\ i' = i
                /\ nMerges' = nMerges + 1
                /\ live' = LiveAfterInsert(
                              LiveAfterRemove(LiveAfterRemove(live, idx),
                                              r.match.path_index),
                              r.merged_path, idx)
                /\ home' = [n \in DOMAIN home |->
                               IF home[n] = r.match.path_index THEN idx ELSE home[n]]
                /\ lastMerge' = [idx |-> idx, j |-> r.match.path_index,
                                 at_start |-> at_start, is_start |-> r.match.is_start,
                                 A |-> path, B |-> segments[r.match.path_index],
                                 point |-> r.match.point, result |-> r.merged_path]
           ELSE /\ pc' = IF at_start THEN "end" ELSE "start"
                /\ i' = IF at_start THEN i + 1 ELSE i
                /\ UNCHANGED <<merged, nMerges, lastMerge, live, home>>
        /\ UNCHANGED <<input, merge_dist_tol, angle_tol, snapshot, k, to_remove,
                       merged_paths, run, lastClose>>

\* lines 277-285
MergeAtEnd == pc = "end" /\ i <= Len(active) /\ TryMerge(FALSE)

\* lines 287-297
MergeAtStart == pc = "start" /\ TryMerge(TRUE)

\* a variant that never starts another pass
NextPassNever(flag, act) == FALSE

\* `while active` goes round again unless `if not merged: break` leaves it
NextPass(flag, act) == flag /\ act # <<>>

\* the inner loop is over: another pass if this one merged (lines 269-272),
\* otherwise on to the closure loop (lines 299-304)
EndPass ==
    /\ pc = "end"
    /\ i > Len(active)
    /\ IF NextPass(merged, active)
       THEN /\ merged' = FALSE
            /\ i' = 1
            /\ UNCHANGED <<pc, snapshot, k, to_remove>>
       ELSE /\ pc' = "close"
            /\ snapshot' = active
            /\ k' = 1
            /\ to_remove' = <<>>
            /\ UNCHANGED <<merged, i>>
    /\ UNCHANGED <<input, segments, merge_dist_tol, angle_tol, active, entries_x,
                   entries_y, excluded, merged_paths, run, lastMerge, lastTry,
                   lastClose, nMerges, live, home>>

\* one iteration of the closure loop, lines 304-311
ClosePath ==
    /\ pc = "close"
    /\ k <= Len(snapshot)
    /\ LET idx == snapshot[k]
           path == segments[idx]
       IN  IF should_close_path(path, merge_dist_tol, angle_tol)
           THEN LET closed_path == Append(path, First(path))
                IN  /\ segments' = [segments EXCEPT ![idx] = closed_path]
                    /\ merged_paths' = Append(merged_paths, closed_path)
                    /\ excluded' = remove_path(CurrentIndex, idx).excluded
                    /\ live' = LiveAfterRemove(live, idx)
                    /\ to_remove' = Append(to_remove, idx)
                    /\ lastClose' = [idx |-> idx, before |-> path, closed |-> TRUE]
           ELSE /\ lastClose' = [idx |-> idx, before |-> path, closed |-> FALSE]
                /\ UNCHANGED <<segments, merged_paths, excluded, to_remove, live>>
    /\ k' = k + 1
    /\ UNCHANGED <<input, merge_dist_tol, angle_tol, active, entries_x, entries_y,
                   pc, i, merged, snapshot, run, lastMerge, lastTry, nMerges, home>>

\* a variant that leaves the closed identifiers in the list
RemainingAll(act, closed) == act

\* lines 312-314: every identifier of to_remove leaves `active`
Remaining(act, closed) == SelectSeq(act, LAMBDA idx : ~InList(closed, idx))

\* lines 312-319: the closed identifiers leave `active`, the remaining open
\* paths are appended and the list is returned
Finish ==
    /\ pc = "close"
    /\ k > Len(snapshot)
    /\ LET left == Remaining(active, to_remove)
       IN  /\ active' = left
           /\ merged_paths' = merged_paths \o [n \in 1..Len(left) |-> segments[left[n]]]
    /\ pc' = "done"
    /\ UNCHANGED <<input, segments, merge_dist_tol, angle_tol, entries_x, entries_y,
                   excluded, i, merged, snapshot, k, to_remove, run, lastMerge,
                   lastTry, lastClose, nMerges, live, home>>

\* the caller passes the returned list to merge_collinear again, with the
\* same tolerances
CallAgain ==
    /\ pc = "done"
    /\ run < MaxRuns
    /\ input' = merged_paths
    /\ segments' = merged_paths
    /\ run' = run + 1
    /\ pc' = "call"
    /\ active' = <<>>
    /\ entries_x' = <<>>
    /\ entries_y' = <<>>
    /\ excluded' = {}
    /\ i' = 1
    /\ merged' = FALSE
    /\ snapshot' = <<>>
    /\ k' = 1
    /\ to_remove' = <<>>
    /\ merged_paths' = <<>>
    /\ lastMerge' = NoMerge
    /\ lastTry' = NoTry
    /\ lastClose' = NoClose
    /\ nMerges' = 0
    /\ live' = {}
    /\ home' = [n \in 1..Len(merged_paths) |-> n]
    /\ UNCHANGED <<merge_dist_tol, angle_tol>>

Next ==
    \/ Call
    \/ MergeAtEnd
    \/ MergeAtStart
    \/ EndPass
    \/ ClosePath
    \/ Finish
    \/ CallAgain

Spec == Init /\ [][Next]_vars

-----------------------------------------------------------------------------
(* simplify_segments *)

MaxCorners == 5

\* simplify_tol = 1.01 as a fraction
SimplifyTolNum == 101
SimplifyTolDen == 100

\* the squared distance from p to the segment a-b, as a fraction
SegDist2(p, a, b) ==
    IF a = b THEN [num |-> Dist2(p, a), den |-> 1]
    ELSE LET ab == Sub(b, a)
             ap == Sub(p, a)
             t == Dot(ap, ab)
         IN  IF t <= 0 THEN [num |-> Dist2(p, a), den |-> 1]
             ELSE IF t >= Norm2(ab) THEN [num |-> Dist2(p, b), den |-> 1]
             ELSE [num |-> Cross(ap, ab) * Cross(ap, ab), den |-> Norm2(ab)]

Farther(d1, d2) == d1.num * d2.den > d2.num * d1.den

\* distance > simplify_tol
ExceedsTol(d) ==
    d.num * SimplifyTolDen * SimplifyTolDen > SimplifyTolNum * SimplifyTolNum * d.den

\* Douglas-Peucker on pts[lo..hi]: the positions it keeps.  The farthest
\* vertex from the chord (the first of them on a tie) is kept when it is
\* farther than the tolerance, and both halves are treated alike; otherwise
\* every vertex between the two ends goes.
RECURSIVE DouglasPeucker(_, _, _)
DouglasPeucker(pts, lo, hi) ==
    IF hi <= lo + 1 THEN {lo, hi}
    ELSE LET dist(n) == SegDist2(pts[n], pts[lo], pts[hi])
             far == CHOOSE n \in (lo + 1)..(hi - 1) :
                       /\ \A m \in (lo + 1)..(hi - 1) : ~Farther(dist(m), dist(n))
                       /\ \A m \in (lo + 1)..(n - 1) : Farther(dist(n), dist(m))
         IN  IF ExceedsTol(dist(far))
             THEN DouglasPeucker(pts, lo, far) \cup DouglasPeucker(pts, far, hi)
             ELSE {lo, hi}

\* list(LineString(s).simplify(simplify_tol).coords)
Simplify(s) ==
    LET keep == DouglasPeucker(s, 1, Len(s))
    IN  SelectSeq([n \in 1..Len(s) |-> [at |-> n, pt |-> s[n]]],
                  LAMBDA e : e.at \in keep)

Coords(marked) == [n \in 1..Len(marked) |-> marked[n].pt]

\* a variant that takes the seam out and leaves the polyline open
DropSeamOpen(simp) == SubSeq(simp, 2, Len(simp) - 1)

\* simp[1:-1], then simp.append(simp[0])
DropSeam(simp) ==
    LET inner == SubSeq(simp, 2, Len(simp) - 1)
    IN  Append(inner, inner[1])

simplify_one(s) ==
    LET simp == Coords(Simplify(s))
        is_closed == Len(simp) >= 4 /\ AllClose(First(simp), Last(simp))
    IN  IF is_closed
        THEN LET ls == Coords(Simplify(<<simp[Len(simp) - 1], simp[1], simp[2]>>))
             IN  IF Len(ls) = 2 THEN DropSeam(simp) ELSE simp
        ELSE simp

simplify_segments(segs) == [n \in 1..Len(segs) |-> simplify_one(segs[n])]

GridPoints == {0, 2, 4} \X {0, 2}

\* polylines that visit 3..MaxCorners distinct grid points
Traces ==
    UNION {{t \in [1..n -> GridPoints] : \A a, b \in 1..n : a # b => t[a] # t[b]} :
              n \in 3..MaxCorners}

\* each trace as it is, and closed on its first point
SimplifyInputs == Traces \cup {Append(t, t[1]) : t \in Traces}

SimplifyInit ==
    /\ \E s \in SimplifyInputs : input = <<s>>
    /\ segments = input
    /\ merge_dist_tol = 1
    /\ angle_tol = a_tol
    /\ active = <<>>
    /\ entries_x = <<>>
    /\ entries_y = <<>>
    /\ excluded = {}
    /\ pc = "simplify"
    /\ i = 1
    /\ merged = FALSE
    /\ snapshot = <<>>
    /\ k = 1
    /\ to_remove = <<>>
    /\ merged_paths = <<>>
    /\ run = 1
    /\ lastMerge = NoMerge
    /\ lastTry = NoTry
    /\ lastClose = NoClose
    /\ nMerges = 0
    /\ live = {}
    /\ home = <<1>>

\* segments = simplify_segments(segments)
SimplifyStep ==
    /\ pc = "simplify"
    /\ segments' = simplify_segments(segments)
    /\ pc' = "simplified"
    /\ UNCHANGED <<input, merge_dist_tol, angle_tol, active, entries_x, entries_y,
                   excluded, i, merged, snapshot, k, to_remove, merged_paths, run,
                   lastMerge, lastTry, lastClose, nMerges, live, home>>

\* main simplifies again what it has: the result is the next argument
SimplifyAgain ==
    /\ pc = "simplified"
    /\ run < MaxRuns
    /\ input' = segments
    /\ run' = run + 1
    /\ pc' = "simplify"
    /\ UNCHANGED <<segments, merge_dist_tol, angle_tol, active, entries_x,
                   entries_y, excluded, i, merged, snapshot, k, to_remove,
                   merged_paths, lastMerge, lastTry, lastClose, nMerges, live, home>>

SimplifyNext == SimplifyStep \/ SimplifyAgain

SimplifySpec == SimplifyInit /\ [][SimplifyNext]_vars

Simplified == pc = "simplified"

-----------------------------------------------------------------------------
(* Vocabulary of the properties *)

Done == pc = "done"

Range(list) == {list[n] : n \in 1..Len(list)}

Count(list, v) == Cardinality({n \in 1..Len(list) : list[n] = v})

\* the same polylines, whatever their order in the list
SamePolylines(s, t) ==
    /\ Len(s) = Len(t)
    /\ \A p \in Range(s) \cup Range(t) : Count(s, p) = Count(t, p)

\* first and last point approximately equal, on at least a triangle
IsClosed(p) == Len(p) >= 4 /\ AllClose(First(p), Last(p))

\* every other polyline the core processes is open
IsOpen(p) == Len(p) >= 2 /\ ~IsClosed(p)

\* every point of p has the ordinate y
OnRow(p, y) == \A n \in 1..Len(p) : p[n][2] = y

Straight(p) == Len(p) >= 2 /\ OnRow(p, p[1][2])

MinX(p) == Min({p[n][1] : n \in 1..Len(p)})

MaxX(p) == -Min({-p[n][1] : n \in 1..Len(p)})

MergeDone == lastMerge.idx # 0

\* the two meeting ends of the last committed merge, as the two polylines
\* were stored when it was committed, and the scanned polyline's tangent
MergeEndA == EndPoint(lastMerge.A, lastMerge.at_start)
MergeEndB == EndPoint(lastMerge.B, lastMerge.is_start)
MergeDirA == EndDir(lastMerge.A, lastMerge.at_start)

-----------------------------------------------------------------------------
(* C1: every closed polyline of the input appears unchanged in the output, *)
(* whatever open polylines end near its seam point.                        *)
C1_ClosedPreserved ==
    Done => \A n \in 1..Len(input) :
                IsClosed(input[n]) => \E m \in 1..Len(merged_paths) :
                                          merged_paths[m] = input[n]

(* C2: a merge is committed only between two ends whose current endpoint   *)
(* coordinates are within d_tol of each other.                             *)
C2_MergeWithinTol ==
    MergeDone => Dist2(MergeEndA, MergeEndB) <= merge_dist_tol * merge_dist_tol

(* C3: a merge is committed only when the partner's endpoint is at most    *)
(* d_tol / 2 perpendicular from the scanned polyline's tangent line, so for *)
(* straight dashes on parallel lines more than d_tol / 2 apart no output   *)
(* polyline has vertices of two lines.                                     *)
ParallelDashLines(paths, d) ==
    /\ \A n \in 1..Len(paths) : Straight(paths[n])
    /\ \A n, m \in 1..Len(paths) :
          paths[n][1][2] # paths[m][1][2]
              => 2 * Abs(paths[n][1][2] - paths[m][1][2]) > d

C3_OffsetBound ==
    /\ MergeDone =>
          LET c == Cross(Sub(MergeEndB, MergeEndA), MergeDirA)
          IN  4 * c * c <= merge_dist_tol * merge_dist_tol * Norm2(MergeDirA)
    /\ (Done /\ ParallelDashLines(input, merge_dist_tol)) =>
          \A m \in 1..Len(merged_paths) : Straight(merged_paths[m])

C3_Witness ==
    /\ Done
    /\ ParallelDashLines(input, merge_dist_tol)
    /\ \E n, m \in 1..Len(input) : input[n][1][2] # input[m][1][2]
    /\ nMerges >= 2
    /\ Len(merged_paths) = 2

(* C4: straight segments of one line, in any order, with every gap between *)
(* consecutive segments <= d_tol, merge into exactly one polyline on that  *)
(* line, spanning from the smallest to the largest input coordinate.       *)
DashChain(paths, d) ==
    /\ Len(paths) >= 1
    /\ \A n \in 1..Len(paths) :
          /\ Len(paths[n]) = 2
          /\ OnRow(paths[n], paths[1][1][2])
          /\ MinX(paths[n]) < MaxX(paths[n])
    /\ \A n, m \in 1..Len(paths) :
          n # m => \/ MaxX(paths[n]) <= MinX(paths[m])
                   \/ MaxX(paths[m]) <= MinX(paths[n])
    /\ \A n \in 1..Len(paths) :
          \/ \A m \in 1..Len(paths) : MaxX(paths[m]) <= MaxX(paths[n])
          \/ \E m \in 1..Len(paths) :
                /\ MinX(paths[m]) >= MaxX(paths[n])
                /\ MinX(paths[m]) - MaxX(paths[n]) <= d

C4_ChainMergesToOne ==
    (Done /\ DashChain(input, merge_dist_tol)) =>
        /\ Len(merged_paths) = 1
        /\ OnRow(merged_paths[1], input[1][1][2])
        /\ MinX(merged_paths[1]) = Min({MinX(input[n]) : n \in 1..Len(input)})
        /\ MaxX(merged_paths[1]) = -Min({-MaxX(input[n]) : n \in 1..Len(input)})

(* C5: a committed merge of the scanned polyline A at end e_A with partner *)
(* B at end e_B stores A ++ B for (end, start), A ++ reverse(B) for (end,   *)
(* end), reverse(B) ++ A for (start, start) and B ++ A for (start, end);    *)
(* the second part loses its leading vertex exactly when the two meeting   *)
(* points are approximately equal; A's points keep their order.            *)
SpliceTable(A, e_A_start, B, e_B_start) ==
    LET parts == CASE ~e_A_start /\ e_B_start -> <<A, B>>
                   [] ~e_A_start /\ ~e_B_start -> <<A, Reverse(B)>>
                   [] e_A_start /\ e_B_start -> <<Reverse(B), A>>
                   [] e_A_start /\ ~e_B_start -> <<B, A>>
        head == parts[1]
        rest == parts[2]
    IN  IF AllClose(Last(head), First(rest))
        THEN head \o SubSeq(rest, 2, Len(rest))
        ELSE head \o rest

C5_SpliceOrientation ==
    lastTry.ok =>
        /\ lastMerge.result = SpliceTable(lastMerge.A, lastMerge.at_start,
                                          lastMerge.B, lastMerge.is_start)
        /\ segments[lastMerge.idx] = lastMerge.result

(* C6: the closure pass closes an active polyline P exactly when P has >= 3 *)
(* points, its ends are not already approximately equal, they are within   *)
(* d_tol, and the angle between its start tangent and the reverse of its   *)
(* end tangent is < a_tol; closing appends a copy of P's first point; no    *)
(* other polyline changes.                                                  *)
Neg(u) == <<-u[1], -u[2]>>

ClosureCondition(P, d, tol) ==
    /\ Len(P) >= 3
    /\ ~AllClose(First(P), Last(P))
    /\ Dist2(First(P), Last(P)) <= d * d
    /\ LET start_tangent == Sub(P[2], P[1])
           end_tangent == Sub(P[Len(P)], P[Len(P) - 1])
       IN  AngleBelow(Dot(start_tangent, Neg(end_tangent)),
                      Norm2(start_tangent), Norm2(Neg(end_tangent)), tol)

IsCShape(P, d) ==
    /\ Len(P) >= 4
    /\ ~AllClose(First(P), Last(P))
    /\ Dist2(First(P), Last(P)) <= d * d
    /\ LET start_dir == EndDir(P, TRUE)
           end_dir == EndDir(P, FALSE)
       IN  /\ Norm2(start_dir) # 0
           /\ Norm2(end_dir) # 0
           /\ Cross(start_dir, end_dir) = 0
           /\ are_segments_offset(First(P), start_dir, Last(P), d)

C7_CShapeStaysOpen ==
    (Done /\ Len(input) = 1 /\ IsCShape(input[1], merge_dist_tol)) =>
        merged_paths = input

(* C8: with d_tol = 50 a speckle more than 2 units off a nearby line is     *)
(* neither merged into the line nor kept, so none of its vertices is in the *)
(* output, while a speckle within 2 units of the line is merged into it.    *)
C8_OffsetSpeckleDropped ==
    (Done /\ run = 1 /\ merge_dist_tol = SpeckleTol
          /\ input = <<SpeckleLine, SpeckleFar, SpeckleNear>>) =>
        /\ \A m \in 1..Len(merged_paths) :
              Range(merged_paths[m]) \cap Range(SpeckleFar) = {}
        /\ \E m \in 1..Len(merged_paths) :
              Range(SpeckleLine) \cup Range(SpeckleNear) \subseteq Range(merged_paths[m])

(* C9: a second run of merge_collinear on its own output, with the same     *)
(* tolerances, returns the same polylines as the first run.                 *)
C9_SecondRunFixedPoint ==
    (Done /\ run >= 2) => SamePolylines(merged_paths, input)

(* C10: when merge_collinear returns, no two distinct open output polylines *)
(* have ends E and F with F within d_tol of E, the two end tangents         *)
(* collinear within a_tol, and F at most d_tol / 2 off E's tangent line.    *)
Mergeable(P, e_start, Q, f_start, d, tol) ==
    LET E == EndPoint(P, e_start)
        F == EndPoint(Q, f_start)
        tE == EndDir(P, e_start)
        tF == EndDir(Q, f_start)
        c == Cross(Sub(F, E), tE)
    IN  /\ Dist2(E, F) <= d * d
        /\ Norm2(tE) # 0
        /\ Norm2(tF) # 0
        /\ AngleBelow(Dot(tE, tF), Norm2(tE), Norm2(tF), tol)
        /\ 4 * c * c <= d * d * Norm2(tE)

C10_NoMergeablePairLeft ==
    Done => \A n, m \in 1..Len(merged_paths) :
                (n # m /\ IsOpen(merged_paths[n]) /\ IsOpen(merged_paths[m])) =>
                    \A e_start, f_start \in BOOLEAN :
                        ~Mergeable(merged_paths[n], e_start, merged_paths[m], f_start,
                                   merge_dist_tol, angle_tol)

(* C11: the returned list has at most as many polylines as the input list, *)
(* and each identifier contributes at most one of them: the returned list   *)
(* is the closed identifiers' polylines followed by the remaining active    *)
(* ones', and no identifier is in both or twice in either.                  *)
Emitters == to_remove \o active

C11_OutputNoLonger ==
    Done =>
        /\ Len(merged_paths) <= Len(input)
        /\ Len(merged_paths) = Len(Emitters)
        /\ \A n \in 1..Len(Emitters) : merged_paths[n] = segments[Emitters[n]]
        /\ \A n, m \in 1..Len(Emitters) : n # m => Emitters[n] # Emitters[m]

C11_Witness ==
    /\ Done
    /\ Len(to_remove) >= 1
    /\ Len(active) >= 1
    /\ Len(merged_paths) = Len(input)

(* C12: every vertex of the output is a vertex of the input or the copy of  *)
(* a start vertex appended by the closure pass: each point occurs in the    *)
(* output at most as often as in the input plus the closures that start at *)
(* it.                                                                      *)
VertexCount(paths, v) ==
    Cardinality(UNION {{<<n, m>> : m \in {q \in 1..Len(paths[n]) : paths[n][q] = v}} :
                          n \in 1..Len(paths)})

ClosureCopies(v) ==
    Cardinality({n \in 1..Len(to_remove) : First(segments[to_remove[n]]) = v})

Vertices(paths) == UNION {Range(paths[n]) : n \in 1..Len(paths)}

C12_NoInventedVertex ==
    Done => \A v \in Vertices(merged_paths) :
                VertexCount(merged_paths, v) <= VertexCount(input, v) + ClosureCopies(v)

C12_Witness ==
    /\ Done
    /\ nMerges >= 1
    /\ Len(to_remove) >= 1
    /\ ~AllClose(MergeEndA, MergeEndB)

(* C13: every call of merge_collinear returns: a natural-valued variant     *)
(* decreases at every step before the return and a step is always possible *)
(* until then; it commits at most N - 1 merges for N >= 1 initial polylines *)
(* (none for N = 0); every committed merge takes exactly one identifier out *)
(* of the active list and no step of the merge loop adds one.               *)
MergeBound == IF Len(input) = 0 THEN 0 ELSE Len(input) - 1

MergeLoopStep ==
    pc \in {"end", "start"} =>
        IF nMerges' = nMerges + 1
        THEN /\ Len(active') = Len(active) - 1
             /\ Range(active') \subseteq Range(active)
             /\ lastMerge'.idx \in Range(active')
             /\ Range(active) \ Range(active') = {lastMerge'.j}
        ELSE active' = active

\* a variant of the call: the steps left in the closure loop, or, in the
\* merge loop, the triple (active identifiers, a merge seen in this pass,
\* half-steps left in this pass) in lexicographic order
PassWidth == 2 * Len(segments) + 2

Rank ==
    CASE pc = "done" -> 0
      [] pc = "close" -> Len(snapshot) + 2 - k
      [] pc \in {"end", "start"} ->
            Len(segments) + 2
            + (2 * Len(active) + (IF merged THEN 1 ELSE 0)) * PassWidth
            + 2 * (Len(active) + 1 - i) + (IF pc = "end" THEN 1 ELSE 0)
      [] pc = "call" -> Len(segments) + 3 + (2 * Len(segments) + 2) * PassWidth

\* the guard of some step holds: the position is one the code can be at
CanStep ==
    \/ pc = "call"
    \/ pc = "end" /\ i >= 1
    \/ pc = "start" /\ i \in 1..Len(active)
    \/ pc = "close" /\ k >= 1

C13_Terminates ==
    /\ [](Rank >= 0)
    /\ [](pc # "done" => CanStep)
    /\ [][pc # "done" => Rank' < Rank]_vars
    /\ [](nMerges <= MergeBound)
    /\ [][MergeLoopStep]_vars

C13_Witness ==
    /\ Done
    /\ Len(input) >= 2
    /\ nMerges = Len(input) - 1

(* C14: if no two open input polylines satisfy the merge conditions at any  *)
(* of their ends and no input polyline satisfies the closure conditions,    *)
(* the call returns the input polylines with >= 2 points, unchanged and in  *)
(* input order (so an empty list for an empty list, and a single polyline   *)
(* as it is).                                                               *)
NoMergeablePair(paths, d, tol) ==
    \A n, m \in 1..Len(paths) :
        (n # m /\ IsOpen(paths[n]) /\ IsOpen(paths[m])) =>
            \A e_start, f_start \in BOOLEAN :
                ~Mergeable(paths[n], e_start, paths[m], f_start, d, tol)

NoClosable(paths, d, tol) ==
    \A n \in 1..Len(paths) : ~ClosureCondition(paths[n], d, tol)

AtLeastTwoPoints(p) == Len(p) >= 2

C14_UnchangedWhenNothingApplies ==
    (Done /\ NoMergeablePair(input, merge_dist_tol, angle_tol)
          /\ NoClosable(input, merge_dist_tol, angle_tol)) =>
        merged_paths = SelectSeq(input, AtLeastTwoPoints)

(* C15: a query returns exactly the stored records of the non-excluded      *)
(* identifiers at Euclidean distance <= r of the query point, each as often *)
(* as it is stored, whichever axis window is scanned, in ascending order of *)
(* distance.  The queries are made in the states that follow the build, a   *)
(* committed merge or a closure; every other step of a call leaves the      *)
(* index and the polylines as they are.                                     *)
IndexJustChanged ==
    \/ pc = "end" /\ lastTry = NoTry
    \/ pc = "end" /\ lastTry.ok
    \/ pc \in {"close", "done"} /\ lastClose.closed

IndexSteady ==
    (pc' # "call" /\ ~IndexJustChanged') =>
        UNCHANGED <<entries_x, entries_y, excluded, segments, merge_dist_tol>>

QueryPoints == (Xs \X Ys) \cup Vertices(segments)

Query(Q) == find_endpoints_in_radius(entries_x, entries_y, excluded, Q, merge_dist_tol)

\* positions of the x-sorted list holding a record that the query owes
Owed(Q) ==
    {n \in 1..Len(entries_x) :
        /\ entries_x[n].path_index \notin excluded
        /\ Dist2(<<entries_x[n].x, entries_x[n].y>>, Q)
              <= merge_dist_tol * merge_dist_tol}

SameRecord(match, e) ==
    /\ match.path_index = e.path_index
    /\ match.is_start = e.is_start
    /\ match.point = <<e.x, e.y>>

QueryExact ==
    IndexJustChanged =>
        \A Q \in QueryPoints :
            LET res == Query(Q)
            IN  /\ Len(res) = Cardinality(Owed(Q))
                /\ \A n \in Owed(Q) :
                      Cardinality({m \in 1..Len(res) : SameRecord(res[m], entries_x[n])})
                        = Cardinality({m \in Owed(Q) : entries_x[m] = entries_x[n]})
                /\ \A n, m \in 1..Len(res) : n < m => res[n].d2 <= res[m].d2
                /\ \A n \in 1..Len(res) : res[n].d2 = Dist2(res[n].point, Q)

C15_QueryExact == []QueryExact /\ [][IndexSteady]_vars

C15_Witness ==
    /\ IndexJustChanged
    /\ nMerges >= 1
    /\ \E Q \in QueryPoints :
          LET res == Query(Q)
          IN  /\ Len(res) >= 3
              /\ res[1].d2 < res[Len(res)].d2
              /\ res[Len(res)].d2 = merge_dist_tol * merge_dist_tol
              /\ \E n \in 1..Len(entries_x) :
                    /\ entries_x[n].path_index \in excluded
                    /\ Dist2(<<entries_x[n].x, entries_x[n].y>>, Q)
                          <= merge_dist_tol * merge_dist_tol

(* C16: once remove_path(i) has been called, no record that was stored for *)
(* i before it is returned by a later query: every query returns only      *)
(* records inserted since the last removal of their identifier, each once.  *)
C16_RemovedStayHidden ==
    pc # "call" =>
        \A Q \in QueryPoints :
            LET res == Query(Q)
            IN  \A n \in 1..Len(res) :
                    /\ \E e \in live : SameRecord(res[n], e)
                    /\ \A m \in 1..Len(res) :
                          (m # n) => ~(/\ res[m].path_index = res[n].path_index
                                       /\ res[m].is_start = res[n].is_start
                                       /\ res[m].point = res[n].point)

(* C17: building the index stores, for each open polyline with >= 2 points, *)
(* exactly two records, a start record at its first point and an end record *)
(* at its last point, under its list position; a closed polyline gets no    *)
(* record and is marked excluded; a polyline with fewer than 2 points gets  *)
(* no record.                                                               *)
RecordsOf(sorted_list, id) ==
    SelectSeq(sorted_list, LAMBDA e : e.path_index = id)

TwoEndRecords(recs, path, id) ==
    /\ Len(recs) = 2
    /\ Range(recs) = {IndexEntry(First(path), id, TRUE), IndexEntry(Last(path), id, FALSE)}

Built == pc \in {"end", "start"} /\ nMerges = 0

C17_BuildStoresEnds ==
    Built =>
        \A n \in 1..Len(input) :
            /\ IsOpen(input[n]) =>
                  /\ TwoEndRecords(RecordsOf(entries_x, n), input[n], n)
                  /\ TwoEndRecords(RecordsOf(entries_y, n), input[n], n)
            /\ IsClosed(input[n]) =>
                  /\ RecordsOf(entries_x, n) = <<>>
                  /\ RecordsOf(entries_y, n) = <<>>
                  /\ n \in excluded
            /\ Len(input[n]) < 2 =>
                  /\ RecordsOf(entries_x, n) = <<>>
                  /\ RecordsOf(entries_y, n) = <<>>

(* C18: after the initialisation, after each merge and after each closure,  *)
(* every identifier of the active list refers to an open polyline with >= 2 *)
(* points.                                                                  *)
C18_ActiveAreOpen ==
    pc \in {"end", "start", "close", "done"} =>
        \A n \in 1..Len(active) : IsOpen(segments[active[n]])

(* C19: after every committed merge, the records a query can return for an  *)
(* active open identifier are exactly two, a start record at the current    *)
(* first point and an end record at the current last point of its polyline. *)
Returnable(sorted_list, id) ==
    IF id \in excluded THEN <<>> ELSE RecordsOf(sorted_list, id)

C20_NoClosedReturned ==
    IndexJustChanged =>
        \A Q \in QueryPoints :
            LET res == Query(Q)
            IN  \A n \in 1..Len(res) : ~IsClosed(segments[res[n].path_index])

\* a polyline closed by the closure pass has its records still in the lists
C20_Witness ==
    /\ lastClose.closed
    /\ nMerges >= 1
    /\ IsClosed(segments[lastClose.idx])
    /\ RecordsOf(entries_x, lastClose.idx) # <<>>
    /\ \E n \in 1..Len(input) : IsClosed(input[n])

(* C21: a committed merge of the scanned identifier i with partner j stores *)
(* the spliced polyline under i and changes no other polyline, keeps i in   *)
(* the active list and takes exactly j out of it; from then on j is never   *)
(* active, stays excluded, and no query returns a record of j.              *)
Retired == {n \in DOMAIN home : home[n] # n}

MergeStepRetires ==
    nMerges' = nMerges + 1 =>
        LET m == lastMerge'
        IN  /\ m.idx = active[i]
            /\ m.j \in Range(active) \ {m.idx}
            /\ segments' = [segments EXCEPT ![m.idx] = m.result]
            /\ Len(m.result) \in {Len(m.A) + Len(m.B) - 1, Len(m.A) + Len(m.B)}
            /\ Range(active') = Range(active) \ {m.j}
            /\ Len(active') = Len(active) - 1
            /\ m.idx \in Range(active')
            /\ Retired' = Retired \cup {m.j}

RetiredForGood ==
    /\ \A j \in Retired : j \notin Range(active) /\ j \in excluded
    /\ IndexJustChanged =>
          \A Q \in QueryPoints :
              LET res == Query(Q)
              IN  \A n \in 1..Len(res) : res[n].path_index \notin Retired

C21_MergeRetiresPartner ==
    /\ [][MergeStepRetires]_vars
    /\ []RetiredForGood
    /\ [][pc' # "call" => Retired \subseteq Retired']_vars

\* after a second merge, a query finds something near a stored record of an
\* identifier retired by the first
C21_Witness ==
    /\ IndexJustChanged
    /\ nMerges >= 2
    /\ \E j \in Retired \ {lastMerge.j} : \E Q \in QueryPoints :
          /\ Query(Q) # <<>>
          /\ \E n \in 1..Len(entries_x) :
                /\ entries_x[n].path_index = j
                /\ Dist2(<<entries_x[n].x, entries_x[n].y>>, Q)
                      <= merge_dist_tol * merge_dist_tol

(* C22: a polyline with fewer than 2 points, or a 2-point polyline whose two *)
(* points coincide, is not in the active list at any point of a call: it is  *)
(* not scanned, merged, closed or emitted as an active polyline.             *)
IsDegenerate(p) == Len(p) < 2 \/ (Len(p) = 2 /\ p[1] = p[2])

C22_DegenerateNotActive ==
    pc \in {"end", "start", "close", "done"} =>
        \A n \in 1..Len(active) : ~IsDegenerate(segments[active[n]])

(* C23: simplify_segments applied to a closed polyline whose only redundant *)
(* vertex is the seam (the duplicated first/last point), lying straight     *)
(* between its two neighbours, drops the seam and re-closes the polyline on *)
(* its new first point: the result has first = last, one vertex fewer and   *)
(* every other vertex in its order; when the seam is a corner (farther than *)
(* the tolerance from the line through its neighbours) the polyline is left *)
(* as it is.                                                                *)
SeamOnly(P) ==
    /\ Len(P) >= 4
    /\ First(P) = Last(P)
    /\ Coords(Simplify(P)) = P

SeamStraight(P) ==
    LET into == Sub(P[1], P[Len(P) - 1])
        out == Sub(P[2], P[1])
    IN  Cross(into, out) = 0 /\ Dot(into, out) > 0

SeamCorner(P) ==
    LET chord == Sub(P[2], P[Len(P) - 1])
        c == Cross(Sub(P[1], P[Len(P) - 1]), chord)
    IN  /\ Norm2(chord) # 0
        /\ c * c * SimplifyTolDen * SimplifyTolDen
              > SimplifyTolNum * SimplifyTolNum * Norm2(chord)

C23_SeamCanonical ==
    (Simplified /\ SeamOnly(input[1])) =>
        LET P == input[1]
            R == segments[1]
        IN  /\ SeamStraight(P) =>
                  /\ First(R) = Last(R)
                  /\ Len(R) = Len(P) - 1
                  /\ \A n \in 1..(Len(P) - 2) : R[n] = P[n + 1]
                  /\ Range(P) \ {P[1]} \subseteq Range(R)
            /\ SeamCorner(P) => R = P

C23_Witness ==
    /\ Simplified
    /\ SeamOnly(input[1])
    /\ SeamStraight(input[1])
    /\ Len(input[1]) = 6
    /\ Len(segments[1]) = 5

-----------------------------------------------------------------------------
(* C24: the closure pass of a call runs once, after a full merge pass that  *)
(* produced no merge: it is entered only from the end of a pass whose flag  *)
(* is unset, while it runs no merge step would succeed for any polyline not *)
(* yet closed, it leads only to the return, and no merge step is taken once *)
(* a polyline has been closed.  (An empty list returns before either loop.) *)
MergePossible ==
    \E n \in 1..Len(active) :
        /\ ~InList(to_remove, active[n])
        /\ \E at_start \in BOOLEAN :
              try_merge_at_endpoint(segments[active[n]], active[n], at_start,
                                    segments, active, CurrentIndex,
                                    merge_dist_tol, angle_tol).ok

ClosureAfterQuiescence ==
    /\ pc = "close" => ~MergePossible
    /\ pc \in {"end", "start"} => to_remove = <<>> /\ ~lastClose.closed

ClosureOnce ==
    /\ (pc' = "close" /\ pc # "close") => (pc = "end" /\ ~merged /\ i > Len(active))
    /\ pc = "close" => pc' \in {"close", "done"}
    /\ pc' = "done" => (pc = "close" \/ (pc = "call" /\ segments = <<>>))
    /\ segments' # segments => (pc \in {"end", "start", "close"} \/ pc' = "call")
    /\ (pc = "close" /\ pc' = "close") => k' = k + 1 /\ snapshot' = snapshot

C24_ClosureAfterMerging == []ClosureAfterQuiescence /\ [][ClosureOnce]_vars

\* the closure pass has closed a polyline that the merge loop had built
C24_Witness ==
    /\ pc = "close"
    /\ k > Len(snapshot)
    /\ lastClose.closed
    /\ nMerges >= 1
    /\ Len(input) >= 2

(* C25: after a merge step succeeds for identifier i, the next merge step   *)
(* attempted is for i again, at its end, whatever the position of the       *)
(* retired partner in the active list: whenever the last step succeeded and *)
(* the loop is about to take a step, that step is the end step of i.        *)
C25_RetrySameIdentifier ==
    (lastTry.ok /\ pc \in {"end", "start"} /\ i <= Len(active)) =>
        /\ pc = "end"
        /\ active[i] = lastTry.idx

(* C26: an endpoint-merge step commits the nearest candidate record (stored, *)
(* not excluded, within d_tol of the scanned endpoint) that has a different *)
(* and still active identifier and passes the degenerate-direction, the     *)
(* collinearity and the offset test: no passing candidate is strictly       *)
(* nearer than the committed one; if no candidate passes, the step reports  *)
(* failure and changes neither the polylines, the active list nor the index. *)
TryStep == pc \in {"end", "start"} /\ (pc = "end" => i <= Len(active))

ScannedId == active[i]

ScannedAtStart == pc = "start"

ScannedEnd == EndPoint(segments[ScannedId], ScannedAtStart)

CandidatePasses(rec) ==
    LET j == rec.path_index
        tP == EndDir(segments[ScannedId], ScannedAtStart)
    IN  /\ j # ScannedId
        /\ j \in Range(active)
        /\ LET tQ == EndDir(segments[j], rec.is_start)
               F == EndPoint(segments[j], rec.is_start)
               c == Cross(Sub(F, ScannedEnd), tP)
           IN  /\ Norm2(tP) # 0
               /\ Norm2(tQ) # 0
               /\ AngleBelow(Dot(tP, tQ), Norm2(tP), Norm2(tQ), angle_tol)
               /\ 4 * c * c <= merge_dist_tol * merge_dist_tol * Norm2(tP)

RecordDist2(rec) == Dist2(<<rec.x, rec.y>>, ScannedEnd)

NearestPassingCommitted ==
    TryStep =>
        IF \E n \in Owed(ScannedEnd) : CandidatePasses(entries_x[n])
        THEN /\ lastTry'.ok
             /\ nMerges' = nMerges + 1
             /\ lastMerge'.idx = ScannedId
             /\ \E n \in Owed(ScannedEnd) :
                   /\ CandidatePasses(entries_x[n])
                   /\ lastMerge'.j = entries_x[n].path_index
                   /\ lastMerge'.is_start = entries_x[n].is_start
                   /\ lastMerge'.point = <<entries_x[n].x, entries_x[n].y>>
                   /\ \A q \in Owed(ScannedEnd) :
                         CandidatePasses(entries_x[q]) =>
                             RecordDist2(entries_x[q]) >= RecordDist2(entries_x[n])
        ELSE /\ ~lastTry'.ok
             /\ nMerges' = nMerges
             /\ UNCHANGED <<segments, active, entries_x, entries_y, excluded,
                            merged_paths, lastMerge>>

C26_NearestPassingFirst == [][NearestPassingCommitted]_vars

\* the committed candidate was nearer than the partner's other end, which
\* was a candidate of the same step
C26_Witness ==
    /\ lastTry.ok
    /\ pc = "end"
    /\ lastMerge.idx = lastTry.idx
    /\ Len(lastMerge.B) = 2
    /\ \E n \in 1..Len(lastTry.matches) :
          /\ lastTry.matches[n].path_index = lastMerge.j
          /\ lastTry.matches[n].is_start # lastMerge.is_start
          /\ lastTry.matches[n].d2 > Dist2(lastMerge.point, MergeEndA)

(* C27: a candidate whose segment at its matched end has zero length is     *)
(* skipped and nothing else: it is never the committed partner, a passing   *)
(* candidate behind it in the order of the query is still committed, and    *)
(* when no candidate passes the step changes nothing and the scan moves on  *)
(* to the other end or to the next identifier.                              *)
ZeroLengthEnd(rec) ==
    /\ rec.path_index \in Range(active) \ {ScannedId}
    /\ Norm2(EndDir(segments[rec.path_index], rec.is_start)) = 0

SkipOnlyTheCandidate ==
    (TryStep /\ \E n \in Owed(ScannedEnd) : ZeroLengthEnd(entries_x[n])) =>
        /\ lastTry'.matches = Query(ScannedEnd)
        /\ IF \E n \in Owed(ScannedEnd) : CandidatePasses(entries_x[n])
           THEN /\ lastTry'.ok
                /\ Norm2(EndDir(segments[lastMerge'.j], lastMerge'.is_start)) # 0
                /\ segments' = [segments EXCEPT ![ScannedId] = lastMerge'.result]
           ELSE /\ ~lastTry'.ok
                /\ UNCHANGED <<segments, active, entries_x, entries_y, excluded,
                               merged_paths, to_remove, nMerges>>
                /\ IF ScannedAtStart
                   THEN pc' = "end" /\ i' = i + 1
                   ELSE pc' = "start" /\ i' = i

C27_DegenerateCandidateSkipped == [][SkipOnlyTheCandidate]_vars

\* a merge was committed with a candidate that came after a zero-length
\* candidate in the query result
C27_Witness ==
    /\ lastTry.ok
    /\ \E n, m \in 1..Len(lastTry.matches) :
          /\ n < m
          /\ lastTry.matches[n].path_index \notin {lastMerge.idx, lastMerge.j}
          /\ IsDegenerate(segments[lastTry.matches[n].path_index])
          /\ lastTry.matches[m].path_index = lastMerge.j
          /\ lastTry.matches[m].is_start = lastMerge.is_start
          /\ lastTry.matches[m].point = lastMerge.point

(* C28: merging the dashes of one straight line never yields a polyline    *)
(* that doubles back: for an input of non-overlapping 2-point dashes of one *)
(* row, the displacements along the row between successive vertices of an   *)
(* output polyline that are larger than one unit all have the same sign.    *)
SignificantDelta == 1

DashesOfOneLine(paths) ==
    /\ Len(paths) >= 1
    /\ \A n \in 1..Len(paths) :
          /\ Len(paths[n]) = 2
          /\ OnRow(paths[n], paths[1][1][2])
          /\ MinX(paths[n]) < MaxX(paths[n])
    /\ \A n, m \in 1..Len(paths) :
          n # m => \/ MaxX(paths[n]) <= MinX(paths[m])
                   \/ MaxX(paths[m]) <= MinX(paths[n])

Delta(p, n) == p[n + 1][1] - p[n][1]

NoBacktracking(p) ==
    \A n, m \in 1..(Len(p) - 1) :
        (Abs(Delta(p, n)) > SignificantDelta /\ Abs(Delta(p, m)) > SignificantDelta)
            => (Delta(p, n) > 0) = (Delta(p, m) > 0)

C28_NoBacktracking ==
    (Done /\ DashesOfOneLine(input)) =>
        \A m \in 1..Len(merged_paths) : NoBacktracking(merged_paths[m])

(* C29: no vertex is lost by merging or closing: every input polyline with  *)
(* >= 2 points appears, forward or reversed, as a contiguous run of the     *)
(* output polyline of the one identifier that holds its points at the       *)
(* return (a seam vertex may be represented by the approximately equal      *)
(* vertex of the polyline it was joined to), and that identifier emits      *)
(* exactly one polyline.                                                    *)
HasRun(out, p) ==
    \E off \in 0..(Len(out) - Len(p)) :
        \A q \in 1..Len(p) : AllClose(out[off + q], p[q])

AppearsIn(out, p) == HasRun(out, p) \/ HasRun(out, Reverse(p))

C30_InputUnchanged == Done => segments = input

====
